---- MODULE Spec2Model ----
(***************************************************************************)
(* rbx-reclaimer (src/src/main.rs): the discovery loop of main, the        *)
(* candidate selector get_random_group_id / fetch_groups, the classifier   *)
(* is_group_available, the exclusion file groups.json (exclude_group,      *)
(* is_group_excluded) and the recursive walk process_group /               *)
(* process_relationships.                                                  *)
(*                                                                         *)
(* The Roblox group API is the environment: every response is an input of  *)
(* the step that awaits it.  A request ends in one of four ways:           *)
(*   "ok"          send() succeeded and the body decoded into the type     *)
(*   "transport"   send() returned Err (the `?` after .send().await)       *)
(*   "notfound"    send() succeeded, the body is the API's error document  *)
(*   "undecodable" send() succeeded, the body is not the expected type     *)
(* The last two both make .json::<T>() return Err.                         *)
(*                                                                         *)
(* Spec, LiveSpec: the provider answers every request in any of these ways *)
(* with any data.  WalkSpec, SearchSpec: the provider holds fixed data and *)
(* answers every request with it.  AvailSpec, StoreSpec: the classifier    *)
(* and the exclusion file on their own.                                    *)
(***************************************************************************)
EXTENDS Integers, Sequences, FiniteSets, TLC

\* ------------------------------------------------------------------ bounds
\* Groups 1..NumGroups exist on the platform; every other id is unknown to it.
NumGroups == 2
\* Longest relatedGroups list a relationship page carries.
MaxRelated == 1
\* Longest data list of a search page.
MaxPageLen == 2
\* Search results end at the page with this cursor at the latest.
MaxPages == 2
\* Largest memberCount a group record carries.
MaxMembers == 2
\* Inserts applied to the exclusion file on its own (StoreSpec).
MaxInserts == 3

Groups == 1..NumGroups

\* ------------------------------------------------------------ group records
\* Option<User> and Option<bool> of struct Group, by their shape.
OwnerValues == {"None", "Some"}
LockedValues == {"None", "Some(false)", "Some(true)"}

\* struct Group, by the fields the program reads
GroupRecords ==
    [id : Groups, owner : OwnerValues, is_locked : LockedValues,
     public_entry_allowed : BOOLEAN, member_count : 0..MaxMembers]

\* A lock that is present and false read as no lock.
is_group_available_unlocked(group, ignore_closed_groups) ==
    IF group.owner # "None" \/ group.is_locked = "Some(true)"
    THEN FALSE
    ELSE IF ignore_closed_groups
            /\ (~group.public_entry_allowed \/ group.member_count = 0)
         THEN FALSE
         ELSE TRUE

\* fn is_group_available(group, args)
is_group_available(group, ignore_closed_groups) ==
    IF group.owner # "None" \/ group.is_locked # "None"
    THEN FALSE
    ELSE IF ignore_closed_groups
            /\ (~group.public_entry_allowed \/ group.member_count = 0)
         THEN FALSE
         ELSE TRUE

\* ------------------------------------------------------------ groups.json
\* The file is a sequence of tokens: "[", "]", "," and decimal numbers.
RECURSIVE Join(_)
Join(ids) ==
    IF ids = <<>> THEN <<>>
    ELSE IF Len(ids) = 1 THEN <<ToString(ids[1])>>
    ELSE <<ToString(ids[1]), ",">> \o Join(Tail(ids))

\* serde_json::to_string(&Vec<u32>)
to_string(ids) == <<"[">> \o Join(ids) \o <<"]">>

IsNumber(tok) == \E n \in 0..(NumGroups + 1) : ToString(n) = tok
NumberOf(tok) == CHOOSE n \in 0..(NumGroups + 1) : ToString(n) = tok

\* serde_json::from_str::<Vec<u32>>: Ok(ids) for "[" n "," n ... "]", Err otherwise
from_str(contents) ==
    LET n == Len(contents)
        inner == SubSeq(contents, 2, n - 1)
        wellFormed ==
            /\ n >= 2
            /\ contents[1] = "["
            /\ contents[n] = "]"
            /\ \/ inner = <<>>
               \/ /\ Len(inner) % 2 = 1
                  /\ \A i \in 1..Len(inner) :
                        IF i % 2 = 1 THEN IsNumber(inner[i]) ELSE inner[i] = ","
    IN  IF wellFormed
        THEN [ok |-> TRUE,
              ids |-> [k \in 1..((Len(inner) + 1) \div 2) |-> NumberOf(inner[2 * k - 1])]]
        ELSE [ok |-> FALSE, ids |-> <<>>]

Absent == [exists |-> FALSE, contents |-> <<>>]
FileOf(contents) == [exists |-> TRUE, contents |-> contents]

Range(s) == {s[i] : i \in 1..Len(s)}

\* Lines 240-243 and 257-260: create groups.json holding "[]" when it does not
\* exist.  io = "create" is a failure of File::create or of write_all: the file
\* is left absent, or created and empty.
EnsureFile(f, io) ==
    IF f.exists THEN {[ok |-> TRUE, file |-> f]}
    ELSE IF io = "create"
         THEN {[ok |-> FALSE, file |-> Absent], [ok |-> FALSE, file |-> FileOf(<<>>)]}
         ELSE {[ok |-> TRUE, file |-> FileOf(<<"[", "]">>)]}

\* Only the first id of the array compared.
is_group_excluded_first(f, group_id, io) ==
    {IF ~e.ok \/ io = "read" \/ ~from_str(e.file.contents).ok
     THEN [ok |-> FALSE, value |-> FALSE, file |-> e.file]
     ELSE [ok |-> TRUE,
           value |-> /\ from_str(e.file.contents).ids # <<>>
                     /\ from_str(e.file.contents).ids[1] = group_id,
           file |-> e.file]
     : e \in EnsureFile(f, io)}

\* The array read and no id looked up in it.
is_group_excluded_never(f, group_id, io) ==
    {IF ~e.ok \/ io = "read" \/ ~from_str(e.file.contents).ok
     THEN [ok |-> FALSE, value |-> FALSE, file |-> e.file]
     ELSE [ok |-> TRUE, value |-> FALSE, file |-> e.file]
     : e \in EnsureFile(f, io)}

\* fn is_group_excluded(group_id): the set of possible outcomes
\* [ok, value, file] under the I/O outcome io.
is_group_excluded(f, group_id, io) ==
    {IF ~e.ok \/ io = "read" \/ ~from_str(e.file.contents).ok
     THEN [ok |-> FALSE, value |-> FALSE, file |-> e.file]
     ELSE [ok |-> TRUE,
           value |-> group_id \in Range(from_str(e.file.contents).ids),
           file |-> e.file]
     : e \in EnsureFile(f, io)}

\* The array written back without the push.
exclude_group_unpushed(f, group_id, io) ==
    UNION {
        IF ~e.ok \/ io = "read" \/ ~from_str(e.file.contents).ok
        THEN {[ok |-> FALSE, file |-> e.file]}
        ELSE LET new_group_ids == to_string(from_str(e.file.contents).ids)
             IN  IF io = "write"
                 THEN {[ok |-> FALSE, file |-> e.file], [ok |-> FALSE, file |-> FileOf(<<>>)]}
                 ELSE {[ok |-> TRUE, file |-> FileOf(new_group_ids)]}
        : e \in EnsureFile(f, io)}

\* The new id written alone, the array read dropped.
exclude_group_overwrite(f, group_id, io) ==
    UNION {
        IF ~e.ok \/ io = "read" \/ ~from_str(e.file.contents).ok
        THEN {[ok |-> FALSE, file |-> e.file]}
        ELSE LET new_group_ids == to_string(<<group_id>>)
             IN  IF io = "write"
                 THEN {[ok |-> FALSE, file |-> e.file], [ok |-> FALSE, file |-> FileOf(<<>>)]}
                 ELSE {[ok |-> TRUE, file |-> FileOf(new_group_ids)]}
        : e \in EnsureFile(f, io)}

\* fn exclude_group(group_id): the set of possible outcomes [ok, file].
\* io = "write" is a failure of fs::write: the file is as it was (it could not
\* be opened) or truncated.  A partly written array is, like the empty file,
\* nothing from_str accepts; the empty file stands for all of them.
exclude_group(f, group_id, io) ==
    UNION {
        IF ~e.ok \/ io = "read" \/ ~from_str(e.file.contents).ok
        THEN {[ok |-> FALSE, file |-> e.file]}
        ELSE LET new_group_ids ==
                     to_string(Append(from_str(e.file.contents).ids, group_id))
             IN  IF io = "write"
                 THEN {[ok |-> FALSE, file |-> e.file], [ok |-> FALSE, file |-> FileOf(<<>>)]}
                 ELSE {[ok |-> TRUE, file |-> FileOf(new_group_ids)]}
        : e \in EnsureFile(f, io)}

\* Where an access to groups.json can fail.
ReadOutcomes == {"ok", "create", "read"}
WriteOutcomes == {"ok", "create", "read", "write"}

\* ------------------------------------------------------------- the provider
\* Outcomes of one request (see the head of the module).
FetchOutcomes == {"ok", "transport", "notfound", "undecodable"}
\* .send().await? passed
Sent(outcome) == outcome # "transport"
\* .json::<T>().await is Ok
Decoded(outcome) == outcome = "ok"
\* What the code can tell of an outcome: the two Results.
Seen(outcome) == IF ~Sent(outcome) THEN "send_err" ELSE IF Decoded(outcome) THEN "ok" ELSE "json_err"

\* The records the provider answers with in the run loop: of each group, a
\* claimed one, an unclaimed open one and an unclaimed closed one.  (AvailSpec
\* ranges over all of GroupRecords.)
ProviderRecords ==
    {r \in GroupRecords :
        /\ r.is_locked = "None"
        /\ r.member_count = 1
        /\ r.owner = "Some" => r.public_entry_allowed}
RecordsOf(id) == {r \in ProviderRecords : r.id = id}

\* relatedGroups of a relationship page, data of a search page
BoundedSeqs(S, n) == UNION {[1..k -> S] : k \in 0..n}
RelatedLists == BoundedSeqs(ProviderRecords, MaxRelated)
\* A search page lists a group once.
PageLists == {s \in BoundedSeqs(Groups, MaxPageLen) : Cardinality(Range(s)) = Len(s)}

\* #[arg(long, default_value_t = 1)] min
DefaultMin == 1
\* --max: one id beyond the groups that exist
MaxId == NumGroups + 1

ArgsSet ==
    [query : BOOLEAN, ignore_closed_groups : BOOLEAN, repeat : BOOLEAN,
     min : {DefaultMin}, max : {MaxId}]

\* The ids the random strategy can select (l.198).
Ids == DefaultMin..MaxId

\* ------------------------------------------------------------------- state
VARIABLES
    args,       \* struct Args of the running process
    file,       \* groups.json
    pc,         \* "select" (l.365), "search" (l.191), "fetch_groups" (l.211),
                \* "fetch" (l.367), "walk" (l.375), "done" (l.385), "panicked"
                \* (a panic), "errored" (main returned Err)
    cursor,     \* next_page_cursor of the pending search call: 0 is None
    page,       \* fetch_groups: [ids: the ids left to fetch, next: the page's cursor]
    fetched,    \* fetch_groups: groups; what the last page gave is kept until the
                \* next request of main or of the selector
    group_id,   \* main: the selected id
    stack,      \* the process_group calls in progress, innermost last
    notice,     \* "No groups to look through" was printed by this selection
    reported,   \* how often each group's line was printed, over all runs
    inserted,   \* how often exclude_group returned Ok for each id, over all runs
    walk,       \* what the current (or last) walk did
    last,       \* the step just taken and its outcome
    world       \* the provider: free to answer a request in any way, or
                \* holding fixed data that every request is answered with

vars == <<args, file, pc, cursor, page, fetched, group_id, stack,
          notice, reported, inserted, walk, last, world>>


\* ----------------------------------------------------------------- helpers
\* The ids groups.json holds, read off the file itself.
StoredIds(f) == IF from_str(f.contents).ok THEN Range(from_str(f.contents).ids) ELSE {}

ZeroCount == [g \in Ids |-> 0]
\* No Group: the seed of no walk.
NoGroup ==
    [id |-> 0, owner |-> "None", is_locked |-> "None", public_entry_allowed |-> FALSE,
     member_count |-> 0]
\* History of a walk (a call of process_group by main): whether it is still
\* in progress, its seed, the relationship requests sent and the
\* classifications made per group, the groups whose line was printed, and the
\* ids groups.json held when it began.
NoWalk ==
    [active |-> FALSE, seed |-> NoGroup, allies_fetched |-> ZeroCount, enemies_fetched |-> ZeroCount,
     evaluated |-> ZeroCount, reported |-> {}, began |-> {}]
NoPage == [ids |-> <<>>, next |-> 0]
\* The provider that answers as it likes: no data of its own.
FreeWorld ==
    [fixed |-> FALSE,
     records |-> [g \in Ids |-> [NoGroup EXCEPT !.id = g]],
     allies |-> [g \in Ids |-> <<>>],
     enemies |-> [g \in Ids |-> <<>>],
     pages |-> [c \in 0..(MaxPages - 1) |-> NoPage]]

\* GET /v1/groups/{id} (l.212-217, l.367-372): how the request can end and
\* the record an "ok" carries.  The free provider knows the groups of Groups;
\* the fixed one knows those it has a record of.
GroupOutcomes(id) ==
    IF world.fixed
    THEN IF id \in DOMAIN world.records THEN {"ok"} ELSE {"notfound"}
    ELSE {o \in FetchOutcomes : o = "ok" => id \in Groups}
GroupResponses(id) ==
    IF world.fixed
    THEN {world.records[g] : g \in {id} \cap DOMAIN world.records}
    ELSE RecordsOf(id)

\* GET /v1/groups/{id}/relationships/{kind} (l.321-339) and
\* GET /v1/groups/search (l.152-166)
PageOutcomes == IF world.fixed THEN {"ok"} ELSE FetchOutcomes
RelatedResponses(id, kind) ==
    IF world.fixed
    THEN {[i \in 1..Len(world[kind][id]) |-> world.records[world[kind][id][i]]]}
    ELSE RelatedLists

\* The step just taken: the operation, how its request or file access ended,
\* the group it was about, and what the code did next.
Step(op, outcome, group, then) ==
    [op |-> op, outcome |-> outcome, group |-> group, then |-> then]
Fetched(op, outcome, group, then) == Step(op, Seen(outcome), group, then)

\* A process_group call: the Group it was given, where it stands
\* ("check" l.271, "exclude" l.280, "allies" l.321, "enemies" l.331,
\* "related" l.341-351 and on to l.287), the related groups still to visit,
\* and (history) whether each page decoded and whether the group was in
\* groups.json when the call began.
Frame(group) ==
    [group |-> group, at |-> "check", allies |-> <<>>, enemies |-> <<>>,
     allies_ok |-> FALSE, enemies_ok |-> FALSE, in_store |-> FALSE]

Top == stack[Len(stack)]
SetTop(fr) == [stack EXCEPT ![Len(stack)] = fr]
Pop == SubSeq(stack, 1, Len(stack) - 1)

Terminated == pc \in {"done", "panicked", "errored"}

\* ------------------------------------------------------------------- Init
Init ==
    /\ args \in ArgsSet
    /\ file = Absent
    /\ pc = "select"
    /\ cursor = 0
    /\ page = NoPage
    /\ fetched = <<>>
    /\ group_id = 0
    /\ stack = <<>>
    /\ notice = FALSE
    /\ reported = ZeroCount
    /\ inserted = ZeroCount
    /\ walk = NoWalk
    /\ last = Step("start", "ok", 0, "select")
    /\ world = FreeWorld

\* -------------------------------------------------- get_random_group_id
\* l.198: the random strategy.
SelectRandom ==
    /\ pc = "select"
    /\ ~args.query
    /\ \E id \in args.min..args.max :
          /\ group_id' = id
          /\ last' = Step("random", "ok", id, "fetch")
    /\ pc' = "fetch"
    /\ notice' = FALSE
    /\ walk' = NoWalk
    /\ UNCHANGED <<args, file, cursor, page, fetched, stack, reported, inserted, world>>

\* l.182-194, reached when fetch_groups returned Ok(gs): filter by
\* is_group_available, then return a random element, recurse with the page's
\* cursor, or print the notice and fall through to Ok(0).
AvailableOf(gs) ==
    {gs[i] : i \in {j \in 1..Len(gs) : is_group_available(gs[j], args.ignore_closed_groups)}}

Choose(gs, next, op, outcome, g) ==
    /\ page' = NoPage
    /\ fetched' = gs
    /\ IF AvailableOf(gs) # {}
       THEN /\ \E group \in AvailableOf(gs) : group_id' = group.id
            /\ pc' = "fetch"
            /\ cursor' = 0
            /\ notice' = FALSE
            /\ last' = Fetched(op, outcome, g, "chosen")
       ELSE IF next # 0
       THEN /\ pc' = "search"
            /\ cursor' = next
            /\ group_id' = group_id
            /\ notice' = FALSE
            /\ last' = Fetched(op, outcome, g, "next_page")
       ELSE /\ pc' = "fetch"
            /\ cursor' = 0
            /\ group_id' = 0
            /\ notice' = TRUE
            /\ last' = Fetched(op, outcome, g, "no_groups")

\* The cursors a page reached with cursor c can carry: None, or the next page's.
NextCursors(c) == {0} \cup {n \in {c + 1} : n < MaxPages}

SearchResponses(c) ==
    IF world.fixed
    THEN {[errors |-> FALSE, has_data |-> TRUE, data |-> world.pages[c].ids,
           next_page_cursor |-> world.pages[c].next]}
    ELSE {[errors |-> e, has_data |-> h, data |-> d, next_page_cursor |-> n] :
             e \in BOOLEAN, h \in BOOLEAN, d \in PageLists, n \in NextCursors(c)}

\* l.152-181: the search request, up to the first group fetch of fetch_groups.
SearchGroups ==
    /\ pc \in {"select", "search"}
    /\ args.query
    /\ walk' = NoWalk
    /\ UNCHANGED <<args, file, stack, reported, inserted, world>>
    /\ \E outcome \in PageOutcomes :
          IF ~Sent(outcome)
          THEN \* l.164: Err out of get_random_group_id, unwrap() at l.365
               /\ pc' = "panicked"
               /\ last' = Fetched("search", outcome, 0, "panic")
               /\ notice' = FALSE
               /\ fetched' = <<>>
               /\ UNCHANGED <<cursor, page, group_id>>
          ELSE IF ~Decoded(outcome)
          THEN \* l.168 fails: Ok(0)
               /\ pc' = "fetch"
               /\ group_id' = 0
               /\ cursor' = 0
               /\ last' = Fetched("search", outcome, 0, "zero")
               /\ notice' = FALSE
               /\ fetched' = <<>>
               /\ UNCHANGED page
          ELSE \E resp \in SearchResponses(cursor) :
               IF resp.errors \/ ~resp.has_data
               THEN \* l.170 panic!, l.175 unwrap() of None
                    /\ pc' = "panicked"
                    /\ last' = Step("search", IF resp.errors THEN "errors" ELSE "no_data",
                                     0, "panic")
                    /\ notice' = FALSE
                    /\ fetched' = <<>>
                    /\ UNCHANGED <<cursor, page, group_id>>
               ELSE IF resp.data = <<>>
               THEN Choose(<<>>, resp.next_page_cursor, "search", outcome, 0)
               ELSE /\ pc' = "fetch_groups"
                    /\ page' = [ids |-> resp.data, next |-> resp.next_page_cursor]
                    /\ fetched' = <<>>
                    /\ last' = Fetched("search", outcome, 0, "fetch_groups")
                    /\ notice' = FALSE
                    /\ UNCHANGED <<cursor, group_id>>

\* l.211-222: one group fetch of fetch_groups; after the last one, l.182-194.
FetchGroups ==
    /\ pc = "fetch_groups"
    /\ UNCHANGED <<args, file, stack, reported, inserted, walk, world>>
    /\ LET id == Head(page.ids) IN
       \E outcome \in GroupOutcomes(id) :
          IF ~Sent(outcome)
          THEN \* l.215: Err out of fetch_groups, l.181 fails: Ok(0)
               /\ pc' = "fetch"
               /\ group_id' = 0
               /\ cursor' = 0
               /\ page' = NoPage
               /\ fetched' = fetched
               /\ notice' = FALSE
               /\ last' = Fetched("fetch_groups", outcome, id, "zero")
          ELSE \E group \in GroupResponses(id) :
               LET gs == IF Decoded(outcome) THEN Append(fetched, group) ELSE fetched IN
               IF Len(page.ids) > 1
               THEN /\ page' = [page EXCEPT !.ids = Tail(page.ids)]
                    /\ fetched' = gs
                    /\ last' = Fetched("fetch_groups", outcome, id, "fetch_groups")
                    /\ UNCHANGED <<pc, cursor, group_id, notice>>
               ELSE Choose(gs, page.next, "fetch_groups", outcome, id)


\* ------------------------------------------------------------------- main
\* The loop left on success whatever --repeat says.
AfterWalk_no_repeat(success) == IF success THEN "done" ELSE "select"

\* What main does with the value of process_group (l.375-383).
AfterWalk(success) == IF success /\ ~args.repeat THEN "done" ELSE "select"

\* l.367-375: fetch the selected group; on Ok call process_group.
FetchGroup ==
    /\ pc = "fetch"
    /\ UNCHANGED <<args, file, page, group_id, notice, reported, inserted, world>>
    /\ cursor' = 0
    /\ fetched' = <<>>
    /\ \E outcome \in GroupOutcomes(group_id) :
          /\ IF ~Sent(outcome)
             THEN \* l.370: main returns Err
                  /\ pc' = "errored"
                  /\ last' = Fetched("fetch", outcome, group_id, "error")
                  /\ UNCHANGED <<stack, walk>>
             ELSE IF ~Decoded(outcome)
             THEN \* l.374 fails: sleep, loop
                  /\ pc' = "select"
                  /\ last' = Fetched("fetch", outcome, group_id, "select")
                  /\ UNCHANGED <<stack, walk>>
             ELSE /\ pc' = "walk"
                  /\ \E group \in GroupResponses(group_id) :
                        /\ stack' = <<Frame(group)>>
                        /\ walk' = [NoWalk EXCEPT !.active = TRUE, !.seed = group,
                                                  !.began = StoredIds(file)]
                  /\ last' = Fetched("fetch", outcome, group_id, "walk")

\* ---------------------------------------------------------- process_group
\* process_group returns `value` to its caller: to process_relationships
\* (l.343, l.349), which drops it, or to main.
Return(value) ==
    /\ stack' = Pop
    /\ pc' = IF Len(stack) = 1 THEN AfterWalk(value) ELSE "walk"

\* The Err dropped and the visit carried on.
OnStorageError_ignored == "walk"

\* l.272-275, l.281: unwrap_or_else(|err| panic!(...)) on Err
OnStorageError == "panicked"

\* l.271-278
CheckExcluded ==
    /\ pc = "walk"
    /\ Top.at = "check"
    /\ UNCHANGED <<args, cursor, page, fetched, group_id, notice, reported, inserted, world>>
    /\ \E io \in ReadOutcomes : \E r \in is_group_excluded(file, Top.group.id, io) :
          /\ file' = r.file
          /\ IF ~r.ok
             THEN /\ pc' = OnStorageError
                  /\ last' = Step("check", "err", Top.group.id, "panic")
                  /\ UNCHANGED <<stack, walk>>
             ELSE IF r.value
             THEN /\ Return(FALSE)
                  /\ walk' = [walk EXCEPT !.active = Len(stack) > 1]
                  /\ last' = Step("check", "ok", Top.group.id, "return")
             ELSE /\ stack' = SetTop([Top EXCEPT !.at = "exclude",
                                                 !.in_store = Top.group.id \in StoredIds(file)])
                  /\ last' = Step("check", "ok", Top.group.id, "exclude")
                  /\ UNCHANGED <<pc, walk>>

\* l.280-281
ExcludeGroup ==
    /\ pc = "walk"
    /\ Top.at = "exclude"
    /\ UNCHANGED <<args, cursor, page, fetched, group_id, notice, reported, walk, world>>
    /\ \E io \in WriteOutcomes : \E r \in exclude_group(file, Top.group.id, io) :
          /\ file' = r.file
          /\ IF ~r.ok
             THEN /\ pc' = OnStorageError
                  /\ last' = Step("exclude", "err", Top.group.id, "panic")
                  /\ UNCHANGED <<stack, inserted>>
             ELSE /\ stack' = SetTop([Top EXCEPT !.at = "allies"])
                  /\ inserted' = [inserted EXCEPT ![Top.group.id] = @ + 1]
                  /\ last' = Step("exclude", "ok", Top.group.id, "allies")
                  /\ UNCHANGED pc

\* l.321-329: the allies request of process_relationships.  An Err of send()
\* leaves process_relationships at l.327 and panics at l.285.
FetchAllies ==
    /\ pc = "walk"
    /\ Top.at = "allies"
    /\ UNCHANGED <<args, file, cursor, page, fetched, group_id, notice, reported, inserted, world>>
    /\ walk' = [walk EXCEPT !.allies_fetched[Top.group.id] = @ + 1]
    /\ \E outcome \in PageOutcomes :
          IF ~Sent(outcome)
          THEN /\ pc' = "panicked"
               /\ last' = Fetched("allies", outcome, Top.group.id, "panic")
               /\ UNCHANGED stack
          ELSE /\ \E related_groups \in RelatedResponses(Top.group.id, "allies") :
                     /\ ~Decoded(outcome) => related_groups = <<>>
                     /\ stack' = SetTop([Top EXCEPT !.at = "enemies",
                                                    !.allies = related_groups,
                                                    !.allies_ok = Decoded(outcome)])
               /\ last' = Fetched("allies", outcome, Top.group.id, "enemies")
               /\ UNCHANGED pc

\* l.331-339: the enemies request.
FetchEnemies ==
    /\ pc = "walk"
    /\ Top.at = "enemies"
    /\ UNCHANGED <<args, file, cursor, page, fetched, group_id, notice, reported, inserted, world>>
    /\ walk' = [walk EXCEPT !.enemies_fetched[Top.group.id] = @ + 1]
    /\ \E outcome \in PageOutcomes :
          IF ~Sent(outcome)
          THEN /\ pc' = "panicked"
               /\ last' = Fetched("enemies", outcome, Top.group.id, "panic")
               /\ UNCHANGED stack
          ELSE /\ \E related_groups \in RelatedResponses(Top.group.id, "enemies") :
                     /\ ~Decoded(outcome) => related_groups = <<>>
                     /\ stack' = SetTop([Top EXCEPT !.at = "related",
                                                    !.enemies = related_groups,
                                                    !.enemies_ok = Decoded(outcome)])
               /\ last' = Fetched("enemies", outcome, Top.group.id, "related")
               /\ UNCHANGED pc

\* The enemies loop placed before the allies loop.
VisitRelated_enemies_first ==
    /\ pc = "walk"
    /\ Top.at = "related"
    /\ Top.allies # <<>> \/ Top.enemies # <<>>
    /\ UNCHANGED <<args, file, pc, cursor, page, fetched, group_id, notice,
                   reported, inserted, walk, world>>
    /\ IF Top.enemies # <<>>
       THEN /\ stack' = Append(SetTop([Top EXCEPT !.enemies = Tail(@)]), Frame(Head(Top.enemies)))
            /\ last' = Step("visit", "enemy", Head(Top.enemies).id, "check")
       ELSE /\ stack' = Append(SetTop([Top EXCEPT !.allies = Tail(@)]), Frame(Head(Top.allies)))
            /\ last' = Step("visit", "ally", Head(Top.allies).id, "check")

\* The enemies loop left out.
VisitRelated_allies_only ==
    /\ pc = "walk"
    /\ Top.at = "related"
    /\ Top.allies # <<>> \/ Top.enemies # <<>>
    /\ UNCHANGED <<args, file, pc, cursor, page, fetched, group_id, notice,
                   reported, inserted, walk, world>>
    /\ IF Top.allies # <<>>
       THEN /\ stack' = Append(SetTop([Top EXCEPT !.allies = Tail(@)]), Frame(Head(Top.allies)))
            /\ last' = Step("visit", "ally", Head(Top.allies).id, "check")
       ELSE /\ stack' = SetTop([Top EXCEPT !.enemies = <<>>])
            /\ last' = Step("visit", "none", Top.group.id, "related")

\* l.341-351: call process_group on the next ally, or on the next enemy once
\* the allies are through.
VisitRelated ==
    /\ pc = "walk"
    /\ Top.at = "related"
    /\ Top.allies # <<>> \/ Top.enemies # <<>>
    /\ UNCHANGED <<args, file, pc, cursor, page, fetched, group_id, notice,
                   reported, inserted, walk, world>>
    /\ IF Top.allies # <<>>
       THEN /\ stack' = Append(SetTop([Top EXCEPT !.allies = Tail(@)]), Frame(Head(Top.allies)))
            /\ last' = Step("visit", "ally", Head(Top.allies).id, "check")
       ELSE /\ stack' = Append(SetTop([Top EXCEPT !.enemies = Tail(@)]), Frame(Head(Top.enemies)))
            /\ last' = Step("visit", "enemy", Head(Top.enemies).id, "check")

\* l.287-312: process_relationships returned Ok; classify the group, print
\* its line when it is available and return.
Evaluate ==
    /\ pc = "walk"
    /\ Top.at = "related"
    /\ Top.allies = <<>> /\ Top.enemies = <<>>
    /\ UNCHANGED <<args, file, cursor, page, fetched, group_id, notice, inserted, world>>
    /\ LET available == is_group_available(Top.group, args.ignore_closed_groups) IN
          /\ reported' = IF available THEN [reported EXCEPT ![Top.group.id] = @ + 1] ELSE reported
          /\ walk' = [walk EXCEPT !.evaluated[Top.group.id] = @ + 1,
                                  !.reported = IF available THEN @ \cup {Top.group.id} ELSE @,
                                  !.active = Len(stack) > 1]
          /\ Return(available)
          /\ last' = Step("evaluate", IF available THEN "reported" ELSE "unavailable",
                          Top.group.id, "return")

\* The program is started again over the same groups.json.
Restart ==
    /\ Terminated
    /\ args' \in ArgsSet
    /\ pc' = "select"
    /\ cursor' = 0
    /\ page' = NoPage
    /\ fetched' = <<>>
    /\ group_id' = 0
    /\ stack' = <<>>
    /\ notice' = FALSE
    /\ walk' = NoWalk
    /\ last' = Step("start", "ok", 0, "select")
    /\ UNCHANGED <<file, reported, inserted, world>>

Next ==
    \/ SelectRandom
    \/ SearchGroups
    \/ FetchGroups
    \/ FetchGroup
    \/ CheckExcluded
    \/ ExcludeGroup
    \/ FetchAllies
    \/ FetchEnemies
    \/ VisitRelated
    \/ Evaluate
    \/ Restart

Spec == Init /\ [][Next]_vars


\* The walk's steps: what runs between main's call of process_group and its
\* return.  Every request the steps await is answered.
WalkStep ==
    CheckExcluded \/ ExcludeGroup \/ FetchAllies \/ FetchEnemies \/ VisitRelated \/ Evaluate

LiveSpec == Init /\ [][Next]_vars /\ WF_vars(WalkStep)

\* ------------------------------------------- the walk over fixed provider data
\* The records a fixed provider holds of a group: claimed, or unclaimed and open.
WorldRecords ==
    [id : Ids, owner : OwnerValues, is_locked : {"None"},
     public_entry_allowed : {TRUE}, member_count : {1}]
RecordTables == {r \in [Ids -> WorldRecords] : \A g \in Ids : r[g].id = g}
\* relatedGroups of the allies (or enemies) page of every group, as ids among S
LinkTables(S) == [Ids -> BoundedSeqs(S, MaxRelated)]

\* The fixed providers over tables of records, allies, enemies and pages.
Worlds(R, A, E, P) ==
    {[fixed |-> TRUE, records |-> r, allies |-> a, enemies |-> e, pages |-> p] :
        r \in R, a \in A, e \in E, p \in P}

\* Every group is known to the provider, with any allies, and any enemies
\* for the groups of Groups; the program runs with --min 1 --max 1, so every
\* walk starts at group 1;
\* groups.json is absent or holds other groups, left by earlier runs.
WalkInit ==
    /\ args \in [query : {FALSE}, ignore_closed_groups : {FALSE}, repeat : {FALSE},
                  min : {DefaultMin}, max : {DefaultMin}]
    /\ world \in Worlds(RecordTables, LinkTables(Ids),
                         {t \in LinkTables(Ids) : \A g \in Ids \ Groups : t[g] = <<>>},
                         {FreeWorld.pages})
    /\ file \in {Absent} \cup
                 {FileOf(to_string(ids)) :
                     ids \in {t \in BoundedSeqs(Ids \ {DefaultMin}, NumGroups) :
                                 /\ t # <<>>
                                 /\ \A i \in 1..(Len(t) - 1) : t[i] < t[i + 1]}}
    /\ pc = "select"
    /\ cursor = 0
    /\ page = NoPage
    /\ fetched = <<>>
    /\ group_id = 0
    /\ stack = <<>>
    /\ notice = FALSE
    /\ reported = ZeroCount
    /\ inserted = ZeroCount
    /\ walk = NoWalk
    /\ last = Step("start", "ok", 0, "select")

WalkNext ==
    \/ SelectRandom
    \/ FetchGroup
    \/ CheckExcluded
    \/ ExcludeGroup
    \/ FetchAllies
    \/ FetchEnemies
    \/ VisitRelated
    \/ Evaluate

WalkSpec == WalkInit /\ [][WalkNext]_vars

\* ----------------------------------------- the search over fixed provider data
\* The search results: a chain of pages, page c carrying the cursor c + 1 or
\* none; nothing behind a page without cursor.
PageChains(n) ==
    {p \in [0..(n - 1) -> [ids : PageLists, next : 0..(n - 1)]] :
        \A c \in 0..(n - 1) :
           /\ p[c].next \in NextCursors(c)
           /\ (c > 0 /\ p[c - 1].next = 0) => p[c] = NoPage}

\* The groups of Groups are found by the search and list allies among
\* themselves, no enemies; the group MaxId is claimed and lists nothing.  The
\* program runs with --query; groups.json is absent or was left by earlier
\* runs.
SearchInit ==
    /\ args \in [query : {TRUE}, ignore_closed_groups : {FALSE}, repeat : BOOLEAN,
                  min : {DefaultMin}, max : {MaxId}]
    /\ world \in Worlds({t \in RecordTables : \A g \in Ids \ Groups : t[g].owner = "Some"},
                         {t \in LinkTables(Groups) : \A g \in Ids \ Groups : t[g] = <<>>},
                         {FreeWorld.enemies},
                         PageChains(MaxPages))
    /\ file \in {Absent} \cup
                 {FileOf(to_string(ids)) :
                     ids \in {t \in BoundedSeqs(Groups, NumGroups) :
                                 /\ t # <<>>
                                 /\ \A i \in 1..(Len(t) - 1) : t[i] < t[i + 1]}}
    /\ pc = "select"
    /\ cursor = 0
    /\ page = NoPage
    /\ fetched = <<>>
    /\ group_id = 0
    /\ stack = <<>>
    /\ notice = FALSE
    /\ reported = ZeroCount
    /\ inserted = ZeroCount
    /\ walk = NoWalk
    /\ last = Step("start", "ok", 0, "select")

SearchNext ==
    \/ SearchGroups
    \/ FetchGroups
    \/ FetchGroup
    \/ CheckExcluded
    \/ ExcludeGroup
    \/ FetchAllies
    \/ FetchEnemies
    \/ VisitRelated
    \/ Evaluate

SearchSpec == SearchInit /\ [][SearchNext]_vars

\* ------------------------------------------------- the classifier on its own
\* process_group at l.287 with any Group the type admits, under any Args.
AvailInit ==
    /\ args \in ArgsSet
    /\ \E group \in GroupRecords :
          /\ stack = <<[Frame(group) EXCEPT !.at = "related"]>>
          /\ walk = [NoWalk EXCEPT !.active = TRUE, !.seed = group]
          /\ file = FileOf(to_string(<<group.id>>))
          /\ inserted = [ZeroCount EXCEPT ![group.id] = 1]
          /\ group_id = group.id
          /\ last = Step("enemies", "ok", group.id, "related")
    /\ pc = "walk"
    /\ cursor = 0
    /\ page = NoPage
    /\ fetched = <<>>
    /\ notice = FALSE
    /\ reported = ZeroCount
    /\ world = FreeWorld

AvailSpec == AvailInit /\ [][Evaluate]_vars

\* ----------------------------------------------- the exclusion file on its own
\* is_group_excluded and exclude_group called in any order on any ids,
\* starting without groups.json.
StoreInit ==
    /\ args \in {a \in ArgsSet : ~a.query /\ ~a.repeat /\ ~a.ignore_closed_groups}
    /\ file = Absent
    /\ pc = "store"
    /\ cursor = 0
    /\ page = NoPage
    /\ fetched = <<>>
    /\ group_id = 0
    /\ stack = <<>>
    /\ notice = FALSE
    /\ reported = ZeroCount
    /\ inserted = ZeroCount
    /\ walk = NoWalk
    /\ last = Step("start", "ok", 0, "store")
    /\ world = FreeWorld

RECURSIVE Sum(_, _)
Sum(f, S) == IF S = {} THEN 0 ELSE LET x == CHOOSE y \in S : TRUE IN f[x] + Sum(f, S \ {x})

Contains ==
    /\ pc = "store"
    /\ \E id \in Groups : \E io \in ReadOutcomes : \E r \in is_group_excluded(file, id, io) :
          /\ file' = r.file
          /\ last' = Step("contains", io, id,
                          IF ~r.ok THEN "err" ELSE IF r.value THEN "true" ELSE "false")
    /\ UNCHANGED <<args, pc, cursor, page, fetched, group_id, stack, notice, reported,
                   inserted, walk, world>>

Insert ==
    /\ pc = "store"
    /\ Sum(inserted, Groups) < MaxInserts
    /\ \E id \in Groups : \E io \in WriteOutcomes : \E r \in exclude_group(file, id, io) :
          /\ file' = r.file
          /\ inserted' = IF r.ok THEN [inserted EXCEPT ![id] = @ + 1] ELSE inserted
          /\ last' = Step("insert", io, id, IF r.ok THEN "ok" ELSE "err")
    /\ UNCHANGED <<args, pc, cursor, page, fetched, group_id, stack, notice, reported, walk,
                   world>>

StoreNext == Contains \/ Insert

StoreSpec == StoreInit /\ [][StoreNext]_vars


\* ======================================================================
\* Properties
\* ======================================================================
TopNext == stack'[Len(stack')]

\* How often id occurs in the array groups.json holds.
Occurrences(f, id) ==
    Cardinality({i \in 1..Len(from_str(f.contents).ids) : from_str(f.contents).ids[i] = id})

\* Section 4.3 of the specification, rule by rule.
Rule1(g) == g.owner = "Some"
Rule2(g) == g.is_locked \in {"Some(true)", "Some(false)"}
Rule3(g, ignoreClosedGroups) ==
    ignoreClosedGroups /\ (g.public_entry_allowed = FALSE \/ g.member_count = 0)
isAvailable(g, ignoreClosedGroups) ==
    CASE Rule1(g) -> FALSE
      [] Rule2(g) -> FALSE
      [] Rule3(g, ignoreClosedGroups) -> FALSE
      [] OTHER -> TRUE

\* main got a value back from process_group with this step.
WalkJustCompleted == stack = <<>> /\ last.then = "return" /\ pc \in {"select", "done"}

\* ---------------------------------------------------------------- C1
AtMostOnce ==
    \A g \in Groups :
        /\ walk.allies_fetched[g] <= 1
        /\ walk.enemies_fetched[g] <= 1
        /\ walk.evaluated[g] <= 1

\* C1: whatever pages the provider answers with (cycles, self-links and mutual
\* alliances among them) and whatever groups.json holds, a walk that main
\* started ends once its requests are answered, and during a walk the allies
\* page and the enemies page of a group are each requested at most once and a
\* group is classified at most once.
C1_WalkTerminates == [](AtMostOnce) /\ ((pc = "walk") ~> (pc # "walk"))

\* The walk went A -> B -> A and the second visit of A has just returned at
\* the check of groups.json.
C1_Witness ==
    /\ pc = "walk"
    /\ Len(stack) = 2
    /\ last.op = "check" /\ last.then = "return"
    /\ last.group = stack[1].group.id
    /\ stack[2].group.id # stack[1].group.id

\* ---------------------------------------------------------------- C2
\* C2: over all walks, attempts and runs on one groups.json, the line of a
\* group is printed at most once, and only by the visit of that group, for a
\* group the classifier of section 4.3 accepts and that groups.json did not
\* hold when that visit began.
C2_ReportedAtMostOnce ==
    /\ [](\A g \in Groups : reported[g] <= 1)
    /\ [][\A g \in Groups :
             reported'[g] # reported[g] =>
                /\ pc = "walk"
                /\ Top.group.id = g
                /\ isAvailable(Top.group, args.ignore_closed_groups)
                /\ ~Top.in_store
                /\ reported'[g] = reported[g] + 1]_vars

\* A group whose line was printed was selected again and its visit returned
\* at the check.
C2_Witness ==
    /\ stack = <<>>
    /\ last.op = "check" /\ last.then = "return"
    /\ last.group \in Groups
    /\ reported[last.group] = 1

\* ---------------------------------------------------------------- C3
\* C3: without --repeat, main leaves the loop after a walk that printed the
\* line of at least one group, the seed or a related one, and stays in the
\* loop after a walk that printed none.
C3_DoneAfterAnyReport ==
    (WalkJustCompleted /\ ~args.repeat) => (pc = "done" <=> walk.reported # {})

\* ---------------------------------------------------------------- C4
\* C4: main is past the loop only without --repeat and right after a walk
\* that printed a line; with --repeat it never is, and after every walk that
\* returned it is back at the selection.
C4_DoneOnlyWithoutRepeat ==
    /\ pc = "done" => ~args.repeat /\ WalkJustCompleted /\ walk.reported # {}
    /\ args.repeat => pc # "done"
    /\ (args.repeat /\ stack = <<>> /\ last.then = "return") => pc = "select"

\* With --repeat a walk printed the seed's line and main is selecting again.
C4_Witness ==
    /\ args.repeat
    /\ WalkJustCompleted
    /\ walk.seed.id \in walk.reported
    /\ pc = "select"

\* ---------------------------------------------------------------- C5
\* C5: the classification of a group is the table of section 4.3: not
\* available with an owner, not available with isLocked present (true or
\* false), not available when closed groups are ignored and the group is
\* closed or has no members, available otherwise.
C5_ClassifierTable ==
    (last.op = "evaluate" /\ stack = <<>>) =>
        ((last.outcome = "reported") <=> isAvailable(walk.seed, args.ignore_closed_groups))

\* A group without owner whose isLocked is present and false was classified
\* as not available.
C5_Witness ==
    /\ last.op = "evaluate" /\ stack = <<>>
    /\ walk.seed.owner = "None"
    /\ walk.seed.is_locked = "Some(false)"
    /\ walk.seed.public_entry_allowed /\ walk.seed.member_count > 0
    /\ last.outcome = "unavailable"

\* ---------------------------------------------------------------- C6
\* C6: from no file on, is_group_excluded(id) returns true exactly when
\* exclude_group(id) returned Ok before; an access that finds no file and
\* meets no I/O failure works on the empty array instead of failing;
\* is_group_excluded leaves the stored ids as they are; no call that returns
\* Ok removes an id.
C6_StoreSemantics ==
    /\ []((last.op = "contains" /\ last.then # "err") =>
             (last.then = "true" <=> inserted[last.group] > 0))
    /\ [][/\ (~file.exists /\ last'.outcome = "ok") =>
                /\ last'.then # "err"
                /\ last'.op = "contains" => last'.then = "false" /\ StoredIds(file') = {}
                /\ last'.op = "insert" => StoredIds(file') = {last'.group}
          /\ last'.op = "contains" => StoredIds(file') = StoredIds(file)
          /\ last'.then # "err" => StoredIds(file) \subseteq StoredIds(file')]_vars

\* After two inserts, is_group_excluded found an inserted id.
C6_Witness ==
    /\ last.op = "contains" /\ last.then = "true"
    /\ Sum(inserted, Groups) >= 2

\* ---------------------------------------------------------------- C7
\* C7: exclude_group is idempotent: however often an id was inserted,
\* is_group_excluded finds it and groups.json holds it exactly once.
C7_InsertIdempotent ==
    \A id \in Groups :
        (inserted[id] >= 1 /\ from_str(file.contents).ok) =>
            id \in StoredIds(file) /\ Occurrences(file, id) = 1

\* ---------------------------------------------------------------- C8
\* C8: when the selected id is 0 or the fetch of the selected group fails
\* (send error, not found, undecodable), the attempt does nothing: no walk,
\* groups.json and the printed lines as they were, the process runs on and
\* main is back at the selection.
C8_FailedAttemptIsNoOp ==
    [][(pc = "fetch" /\ (group_id = 0 \/ last'.outcome # "ok")) =>
          /\ pc' = "select"
          /\ stack' = <<>>
          /\ file' = file
          /\ reported' = reported]_vars

\* ---------------------------------------------------------------- C9
\* C9: a failed allies request (send error, not found, undecodable) does not
\* keep the enemies from being requested and visited, a failed enemies
\* request does not keep the allies from being visited, and in both cases the
\* walk goes on and the process does not abort.
C9_RelationshipFailuresIndependent ==
    [][/\ (pc = "walk" /\ Top.at = "allies" /\ last'.outcome # "ok") =>
             /\ pc' = "walk"
             /\ Len(stack') = Len(stack)
             /\ TopNext.at = "enemies"
       /\ (pc = "walk" /\ Top.at = "enemies" /\ last'.outcome # "ok") =>
             /\ pc' = "walk"
             /\ Len(stack') = Len(stack)
             /\ TopNext.at = "related"
             /\ TopNext.allies = Top.allies]_vars

\* ---------------------------------------------------------------- C10
\* C10: when is_group_excluded or exclude_group returns Err during a visit,
\* the process is dead: nothing but a new start of the program follows, so no
\* relationship request for the group, no line for it and no selection.
C10_StorageFailureFatal ==
    /\ []((last.op \in {"check", "exclude"} /\ last.outcome = "err") => pc = "panicked")
    /\ [][pc = "panicked" => last'.op = "start"]_vars

\* exclude_group failed for a related group, two calls deep.
C10_Witness ==
    /\ last.op = "exclude" /\ last.outcome = "err"
    /\ Len(stack) = 2
    /\ pc = "panicked"

\* ---------------------------------------------------------------- selector
\* get_random_group_id has just returned to main under --query.
SelectorReturned == args.query /\ pc = "fetch" /\ last.op \in {"search", "fetch_groups"}
\* The ids of the records of the last page that the classifier accepts.
AvailableIds(gs) == {g.id : g \in AvailableOf(gs)}
\* This step ends fetch_groups: the last id of the page was requested, or a
\* request failed in send().
PageThrough == pc = "fetch_groups" /\ pc' # "fetch_groups"

\* ---------------------------------------------------------------- C11
\* C11: a search response with errors present, on the first page or on a
\* later one, aborts the process with no id returned and no walk started; a
\* search response without errors does not abort the process.
C11_OnlySearchErrorsAbort ==
    [][(args.query /\ pc \in {"select", "search"}) =>
          /\ last'.outcome = "errors" =>
                pc' = "panicked" /\ group_id' = group_id /\ stack' = <<>>
          /\ last'.outcome \notin {"errors", "send_err"} => pc' # "panicked"]_vars

\* ---------------------------------------------------------------- C12
\* C12: when a record fetched for the current search page is accepted by the
\* classifier, the selector returns the id of such a record and requests no
\* further page; an id other than 0 that the selector returns is the id of
\* an accepted record of the page.
C12_ReturnsAvailableOfPage ==
    /\ SelectorReturned =>
          /\ AvailableOf(fetched) # {} => group_id \in AvailableIds(fetched)
          /\ group_id # 0 => group_id \in AvailableIds(fetched)
    /\ (args.query /\ pc = "search") => AvailableOf(fetched) = {}

\* ---------------------------------------------------------------- C13
\* C13: the selector returns 0 and prints the notice at a page without an
\* accepted group and without next cursor, prints the notice there only, and
\* never returns 0 without the notice.
C13_ZeroOnlyWithNotice ==
    /\ [](SelectorReturned =>
             /\ group_id = 0 => notice
             /\ notice => group_id = 0 /\ AvailableOf(fetched) = {} /\ last.then = "no_groups")
    /\ [][(PageThrough /\ pc' = "fetch" /\ page.next = 0 /\ AvailableOf(fetched') = {}) =>
             notice' /\ group_id' = 0]_vars

\* ---------------------------------------------------------------- C14
\* C14: a failed record request of fetch_groups (send error, not found,
\* undecodable) skips that group only: the records fetched so far are kept,
\* the remaining ids of the page are still requested, the process does not
\* abort, and after the last id the selector chooses among the accepted
\* records of the page when there are any.
C14_FailedRecordSkipped ==
    [][(pc = "fetch_groups" /\ last'.outcome # "ok") =>
          /\ fetched' = fetched
          /\ pc' # "panicked"
          /\ Len(page.ids) > 1 => pc' = "fetch_groups" /\ page'.ids = Tail(page.ids)
          /\ (Len(page.ids) = 1 /\ AvailableOf(fetched) # {}) =>
                pc' = "fetch" /\ group_id' \in AvailableIds(fetched)]_vars

\* ---------------------------------------------------------------- C18
\* C18: when a page is through, the selector requests the next page exactly
\* when no record of the page is accepted and the page has a next cursor, and
\* it passes that cursor; otherwise it returns an accepted id or 0.  A cursor
\* leads on in the chain of pages, so no page is requested twice.
C18_NextPageExactlyWhenNeeded ==
    [][PageThrough =>
          /\ pc' = "search" <=> (AvailableOf(fetched') = {} /\ page.next # 0)
          /\ pc' = "search" => cursor' = page.next /\ cursor' > cursor
          /\ pc' # "search" =>
                pc' = "fetch" /\ group_id' \in AvailableIds(fetched') \cup {0}]_vars

\* ---------------------------------------------------------------- C15
\* C15: a visit of a group g that groups.json does not hold inserts g.id,
\* then requests the allies page and then the enemies page of g, then visits
\* the related groups, every ally before any enemy, and classifies g (and
\* prints its line) only when all those visits have returned.  So
\* groups.json holds g.id at every request and at the line for g, and the
\* line of g comes after the lines printed through its links.
C15_VisitOrder ==
    /\ [](pc = "walk" =>
             \A i \in 1..Len(stack) :
                stack[i].at \in {"allies", "enemies", "related"} =>
                    stack[i].group.id \in StoredIds(file))
    /\ [][pc = "walk" =>
             LET g == Top.group.id IN
             /\ last'.op = "exclude" =>
                   /\ walk.allies_fetched[g] = 0 /\ walk.enemies_fetched[g] = 0
                   /\ walk.evaluated[g] = 0
             /\ last'.op = "allies" =>
                   g \in StoredIds(file) /\ walk.enemies_fetched[g] = 0
             /\ last'.op = "enemies" =>
                   g \in StoredIds(file) /\ walk.allies_fetched[g] = 1
             /\ last'.op = "visit" =>
                   /\ walk.allies_fetched[g] = 1 /\ walk.enemies_fetched[g] = 1
                   /\ walk.evaluated[g] = 0
                   /\ last'.outcome = "enemy" => Top.allies = <<>>
             /\ last'.op = "evaluate" =>
                   /\ g \in StoredIds(file)
                   /\ walk.allies_fetched[g] = 1 /\ walk.enemies_fetched[g] = 1
                   /\ Top.allies = <<>> /\ Top.enemies = <<>>
                   /\ \A i \in 1..(Len(stack) - 1) : walk.evaluated[stack[i].group.id] = 0]_vars

\* The line of the seed was printed after the line of the group reached
\* through its pages, every group classified once.
C15_Witness ==
    /\ stack = <<>>
    /\ last.op = "evaluate" /\ last.outcome = "reported"
    /\ Cardinality(walk.reported) = 2
    /\ \A g \in Groups : walk.evaluated[g] = 1

\* ---------------------------------------------------------------- C16
\* C16: the visit of a group whose id groups.json holds, from an earlier run
\* or from earlier in the walk, changes nothing: no relationship request, no
\* line, no visit of a related group, groups.json as it was; and it returns
\* false at once.
C16_ExcludedVisitNoEffect ==
    [][(pc = "walk" /\ Top.at = "check" /\ Top.group.id \in StoredIds(file)) =>
          /\ file' = file
          /\ reported' = reported
          /\ inserted' = inserted
          /\ walk'.allies_fetched = walk.allies_fetched
          /\ walk'.enemies_fetched = walk.enemies_fetched
          /\ walk'.evaluated = walk.evaluated
          /\ last'.outcome = "ok" =>
                /\ last'.then = "return"
                /\ stack' = Pop
                /\ pc' = IF Len(stack) = 1 THEN "select" ELSE "walk"]_vars

\* A related group that groups.json held before the walk began was visited
\* and the visit has returned to the seed's.
C16_Witness ==
    /\ pc = "walk"
    /\ Len(stack) = 1
    /\ last.op = "check" /\ last.then = "return"
    /\ last.group \in walk.began
    /\ last.group # walk.seed.id

\* ---------------------------------------------------------------- C19
\* C19: groups.json never holds an id twice: exclude_group is called for an
\* id only as the step right after is_group_excluded returned false for that
\* id, the file untouched in between.
C19_NoDuplicateIds ==
    /\ [](from_str(file.contents).ok =>
             \A id \in 0..MaxId : Occurrences(file, id) <= 1)
    /\ [][last'.op = "exclude" =>
             /\ last.op = "check" /\ last.then = "exclude"
             /\ last.group = last'.group
             /\ last'.group \notin StoredIds(file)]_vars

\* A run that began with one id in groups.json has inserted a second one.
C19_Witness ==
    /\ last.op = "exclude" /\ last.outcome = "ok"
    /\ Cardinality(walk.began) = 1
    /\ Cardinality(StoredIds(file)) = 2

\* ---------------------------------------------------------------- C17
\* The groups the pages of g list.
Links(g) == Range(world.allies[g]) \cup Range(world.enemies[g])
\* The groups reached from the seed over links, every group on the way (the
\* group reached included) one that groups.json did not hold when the walk
\* began.
RECURSIVE ReachFrom(_, _)
ReachFrom(R, n) ==
    IF n = 0 THEN R
    ELSE ReachFrom(R \cup {h \in UNION {Links(g) : g \in R} : h \notin walk.began}, n - 1)
Reach == ReachFrom({walk.seed.id}, Cardinality(Ids))

\* C17: when the walk of a seed that groups.json did not hold has returned
\* (every request answered from the provider's fixed data), groups.json holds
\* what it held before and every group reached from the seed through groups
\* it did not hold; each of those was classified once and, when the table of
\* section 4.3 accepts it, its line was printed once; groups that can only be
\* reached through a group the file held before were not inserted, requested,
\* classified or printed.
C17_WalkCoversComponent ==
    (WalkJustCompleted /\ world.fixed /\ walk.seed.id \notin walk.began) =>
        /\ UNION {Links(g) : g \in Reach} \subseteq StoredIds(file)
        /\ StoredIds(file) = walk.began \cup Reach
        /\ walk.reported = {g \in Reach : isAvailable(world.records[g], args.ignore_closed_groups)}
        /\ \A g \in Reach :
              /\ walk.evaluated[g] = 1
              /\ inserted[g] = 1
              /\ Occurrences(file, g) = 1
              /\ reported[g] = IF g \in walk.reported THEN 1 ELSE 0
        /\ \A g \in Ids \ Reach :
              /\ walk.evaluated[g] = 0
              /\ walk.allies_fetched[g] = 0 /\ walk.enemies_fetched[g] = 0
              /\ inserted[g] = 0
              /\ reported[g] = 0

\* The seed lists a group that groups.json held, that group lists a third
\* one, unclaimed, which no other page of the walk lists: the walk returned
\* with the seed's line printed and the third group untouched.
C17_Witness ==
    /\ WalkJustCompleted /\ world.fixed
    /\ walk.seed.id \in walk.reported
    /\ \E s \in Links(walk.seed.id) \cap walk.began :
          \E c \in Links(s) \ StoredIds(file) :
             world.records[c].owner = "None"

\* ---------------------------------------------------------------- C20
\* The pages the selector can come to: page 0 and every page the cursors
\* before it lead to.
PagesReached ==
    {c \in 0..(MaxPages - 1) : \A d \in 0..(c - 1) : world.pages[d].next = d + 1}
\* The groups of page c that the table of section 4.3 accepts.
AvailOnPage(c) ==
    {g \in Range(world.pages[c].ids) :
        isAvailable(world.records[g], args.ignore_closed_groups)}
HasFirst == \E c \in PagesReached : AvailOnPage(c) # {}
\* The first page with an accepted group.
FirstPage ==
    CHOOSE c \in PagesReached :
        /\ AvailOnPage(c) # {}
        /\ \A d \in PagesReached : d < c => AvailOnPage(d) = {}
\* The process runs, and groups.json held every accepted group of the first
\* page that has one when the attempt in progress began.
Settled ==
    /\ world.fixed /\ args.query
    /\ HasFirst
    /\ pc \in {"select", "search", "fetch_groups", "fetch", "walk"}
    /\ AvailOnPage(FirstPage) \subseteq (IF pc = "walk" THEN walk.began ELSE StoredIds(file))

\* C20: with fixed provider data the selection does not look into
\* groups.json; once the file holds every accepted group of the first page
\* that has one, every attempt selects one of those groups, its visit returns
\* at the check, no line is printed, the file stays as it is, no page behind
\* that one is requested and main never leaves the loop.
C20_SelectionStuckOnExcluded ==
    /\ []((Settled /\ pc = "fetch") => group_id \in AvailOnPage(FirstPage))
    /\ [][Settled =>
             /\ file' = file
             /\ reported' = reported
             /\ pc' # "done"
             /\ cursor' <= FirstPage
             /\ pc = "walk" =>
                   /\ Len(stack) = 1 /\ Top.at = "check"
                   /\ pc' \in {"select", "panicked"}
             /\ pc' # "panicked" => Settled']_vars

\* Without --repeat: the second page is the first with accepted groups, both
\* of them in groups.json; the visit of the selected one has returned at the
\* check and main selects again.
C20_Witness ==
    /\ Settled
    /\ ~args.repeat
    /\ FirstPage = 1
    /\ Cardinality(AvailOnPage(FirstPage)) = 2
    /\ pc = "select"
    /\ last.op = "check" /\ last.then = "return"
    /\ last.group \in AvailOnPage(FirstPage)

====
